---- MODULE Spec2Model ----
(***************************************************************************)
(* Model of nitrates/archive/rates_only_quads_mle.py: the quadrant         *)
(* binning of events, the spectral template interpolator, the profiled     *)
(* background likelihood and the doubling-round / trials-correction loop   *)
(* of main.                                                                *)
(*                                                                         *)
(* Numbers.  Python floats are modelled by exact rationals [n, d] (d > 0,  *)
(* lowest terms); the one square root of the likelihood is kept symbolic   *)
(* in values p + q*sqrt(D); the IEEE specials (inf, -inf, nan) that numpy  *)
(* produces instead of raising are modelled by the kinds of Fl values.     *)
(* Times are integers in milliseconds, spectral indices are integers in    *)
(* units of 0.025 (half a step of main's index grid).                      *)
(***************************************************************************)
EXTENDS Integers, Sequences, FiniteSets, TLC

VARIABLES
    \* the cnts_norm_intp object and its last call
    ind_ax, cnt_ebins_norm_ind_mat, ind0, ind1, ind, cnts_norm,
    \* main's counts and background of one (subset, time bin), the last
    \* likelihood call: who made it, its arguments, what it returned
    data, bkg_cnts, bkg_err, sig_dt, bkg_dt, theta, queried, caller, llh_args,
    llh_ret,
    \* the filtered event list, the bins, the counts per quadrant from the
    \* detector-plane images and from the events, and the place in
    \* get_quad_cnts_tbins
    evd, tbins0, tbins1, bkg_quad_cnts, cnts_mat, pcBin,
    \* main: the arguments, the doubling round and the subset being fitted,
    \* the time bins of the round, the tables, the p-values, the place in main
    ndbl, trig_time, ii, direction, tstep, bin_size, t_bins0, t_bins1, tabs,
    tab, dt_tot, pvals, i_exp, pcMain

varsIntp == <<ind_ax, cnt_ebins_norm_ind_mat, ind0, ind1, ind, cnts_norm>>
varsBin1 == <<data, bkg_cnts, bkg_err, sig_dt, bkg_dt>>
varsLlh == <<theta, queried, caller, llh_args, llh_ret>>
varsBin == <<evd, tbins0, tbins1, bkg_quad_cnts, cnts_mat, pcBin>>
varsMain ==
    <<ndbl, trig_time, ii, direction, tstep, bin_size, t_bins0, t_bins1, tabs,
      tab, dt_tot, pvals, i_exp, pcMain>>
vars == <<varsIntp, varsBin1, varsLlh, varsBin, varsMain>>

\* ------------------------------------------------------------------ bounds
\* number of energy bins of the templates and count vectors
NEbins == 2
\* largest number of grid points of an interpolator built on a free grid
MaxGrid == 4
\* largest number of counts in one energy bin
MaxCnt == 2
\* largest number of events in the event list
MaxEv == 2
\* largest number of doubling rounds (args.ndbl)
MaxNdbl == 3
\* half the searched interval around the trigger, in ms (15008 in main)
HalfSpan == 160

\* ------------------------------------------------------ program constants
\* main's index grid np.linspace(-1.5, 3.5, 20*5 + 1), in units of 0.025
MainIndLo == -60
MainIndHi == 140
MainIndNum == 101
\* the index main evaluates the null template at, cnts_intp(1.0)
MainNullInd == 40
\* the indices rate_llh2min accepts: -1 <= ind <= 3
PenaltyLo == -40
PenaltyHi == 120
\* bkg_err = 5.0 * np.sqrt(bkg_cnts)
BkgErrFactor == 5
\* the first cadence and bin width of main, in ms
tstep0 == 64
bin_size0 == 128
\* the tolerances of np.isclose are rtol = 1e-5 and atol = 1e-8 s = 1e-5 ms
InvTol == 100000
\* the midlines of the detector plane
x_mid == 142
y_mid == 86
\* main's energy bins, in units of 0.1 keV
ebins0 == <<140, 240, 363, 554, 800, 1207>>
ebins1 == Tail(ebins0) \o <<1949>>

\* ------------------------------------------------------- exact arithmetic
Abs(x) == IF x < 0 THEN -x ELSE x
Sgn(x) == IF x < 0 THEN -1 ELSE IF x = 0 THEN 0 ELSE 1

RECURSIVE GCD(_, _)
GCD(a, b) == IF b = 0 THEN a ELSE GCD(b, a % b)

\* the rational n/d (d # 0) in lowest terms with a positive denominator
Rat(n, d) ==
    LET g == GCD(Abs(n), Abs(d))
        s == IF d < 0 THEN -1 ELSE 1
    IN  [n |-> (s * n) \div g, d |-> (s * d) \div g]

RInt(k) == [n |-> k, d |-> 1]
RZero == RInt(0)
RAdd(a, b) ==
    LET g == GCD(a.d, b.d)
    IN  Rat(a.n * (b.d \div g) + b.n * (a.d \div g), (a.d \div g) * b.d)
RNeg(a) == [n |-> -a.n, d |-> a.d]
RSub(a, b) == RAdd(a, RNeg(b))
RMul(a, b) ==
    LET g == GCD(Abs(a.n), b.d)
        h == GCD(Abs(b.n), a.d)
    IN  Rat((a.n \div g) * (b.n \div h), (a.d \div h) * (b.d \div g))
\* a / b for b # 0
RDiv(a, b) == RMul(a, Rat(b.d, b.n))
RSign(a) == Sgn(a.n)
RAbs(a) == [n |-> Abs(a.n), d |-> a.d]

\* np.min / np.max of a non-empty sequence of integers
SeqMin(s) == CHOOSE m \in {s[k] : k \in DOMAIN s} : \A k \in DOMAIN s : m <= s[k]
SeqMax(s) == CHOOSE m \in {s[k] : k \in DOMAIN s} : \A k \in DOMAIN s : m >= s[k]

\* np.argmin: the first (0-based) position of the least entry
ArgMin(s) ==
    LET least == CHOOSE m \in {s[k] : k \in DOMAIN s} :
                     \A k \in DOMAIN s : m <= s[k]
    IN  (CHOOSE k \in DOMAIN s :
            s[k] = least /\ \A m \in 1..(k - 1) : s[m] # least) - 1

\* np.linspace(start, stop, num), for a spacing that is a whole number of units
Linspace(start, stop, num) ==
    [k \in 1..num |-> start + ((k - 1) * (stop - start)) \div (num - 1)]

\* ------------------------------------------------- spectral template cache
\* a[i] on a Python sequence of length Len(a): negative positions count from
\* the end, anything else out of range raises IndexError
PyIndexOK(a, i) == i >= -Len(a) /\ i <= Len(a) - 1
PyItem(a, i) == IF i >= 0 THEN a[i + 1] ELSE a[Len(a) + i + 1]

\* the template rows the cache may hold: normalised shapes rising or falling
\* with the energy bin
RowSum == (NEbins * (NEbins + 1)) \div 2
RisingRow == [j \in 1..NEbins |-> Rat(j, RowSum)]
FallingRow == [j \in 1..NEbins |-> Rat(NEbins + 1 - j, RowSum)]
FlatRow == [j \in 1..NEbins |-> Rat(1, NEbins)]
TemplateRows == {RisingRow, FallingRow, FlatRow}

\* cnts_norm_intp.__init__
IntpInit(mat, ax) ==
    /\ ind_ax = ax
    /\ cnt_ebins_norm_ind_mat = mat
    /\ ind0 = SeqMin(ax)
    /\ ind1 = SeqMax(ax)

\* the weight A0 of the nearest row
IntpA0(x, ax, i0, i1) ==
    Rat(Abs(x - PyItem(ax, i1)), Abs(PyItem(ax, i0) - PyItem(ax, i1)))

\* cnts_norm_intp.__call__: the NaN vector outside (ind0, ind1), otherwise the
\* two rows read and their blend
IntpCallMutLooseBounds(x, ax, mat, lo, hi) ==
    IF (x < lo) \/ (x > hi)
    THEN [kind |-> "nan", len |-> Len(mat[1])]
    ELSE LET ind_ind0 == ArgMin([k \in DOMAIN ax |-> Abs(x - ax[k])])
             ind_ind1 == IF x > PyItem(ax, ind_ind0) THEN ind_ind0 + 1
                                                     ELSE ind_ind0 - 1
         IN  IF ~PyIndexOK(ax, ind_ind1)
             THEN [kind |-> "IndexError", i0 |-> ind_ind0, i1 |-> ind_ind1]
             ELSE LET A0 == IntpA0(x, ax, ind_ind0, ind_ind1)
                      A1 == RSub(RInt(1), A0)
                  IN  [kind |-> "vec", i0 |-> ind_ind0, i1 |-> ind_ind1,
                       vec |-> [j \in 1..Len(mat[1]) |->
                                  RAdd(RMul(A0, PyItem(mat, ind_ind0)[j]),
                                       RMul(A1, PyItem(mat, ind_ind1)[j]))]]

IntpCallMutSwapWeights(x, ax, mat, lo, hi) ==
    IF (x <= lo) \/ (x >= hi)
    THEN [kind |-> "nan", len |-> Len(mat[1])]
    ELSE LET ind_ind0 == ArgMin([k \in DOMAIN ax |-> Abs(x - ax[k])])
             ind_ind1 == IF x > PyItem(ax, ind_ind0) THEN ind_ind0 + 1
                                                     ELSE ind_ind0 - 1
         IN  IF ~PyIndexOK(ax, ind_ind1)
             THEN [kind |-> "IndexError", i0 |-> ind_ind0, i1 |-> ind_ind1]
             ELSE LET A0 == IntpA0(x, ax, ind_ind0, ind_ind1)
                      A1 == RSub(RInt(1), A0)
                  IN  [kind |-> "vec", i0 |-> ind_ind0, i1 |-> ind_ind1,
                       vec |-> [j \in 1..Len(mat[1]) |->
                                  RAdd(RMul(A1, PyItem(mat, ind_ind0)[j]),
                                       RMul(A0, PyItem(mat, ind_ind1)[j]))]]

IntpCall(x, ax, mat, lo, hi) ==
    IF (x <= lo) \/ (x >= hi)
    THEN [kind |-> "nan", len |-> Len(mat[1])]
    ELSE LET ind_ind0 == ArgMin([k \in DOMAIN ax |-> Abs(x - ax[k])])
             ind_ind1 == IF x > PyItem(ax, ind_ind0) THEN ind_ind0 + 1
                                                     ELSE ind_ind0 - 1
         IN  IF ~PyIndexOK(ax, ind_ind1)
             THEN [kind |-> "IndexError", i0 |-> ind_ind0, i1 |-> ind_ind1]
             ELSE LET A0 == IntpA0(x, ax, ind_ind0, ind_ind1)
                      A1 == RSub(RInt(1), A0)
                  IN  [kind |-> "vec", i0 |-> ind_ind0, i1 |-> ind_ind1,
                       vec |-> [j \in 1..Len(mat[1]) |->
                                  RAdd(RMul(A0, PyItem(mat, ind_ind0)[j]),
                                       RMul(A1, PyItem(mat, ind_ind1)[j]))]]

\* the grids an interpolator is built on: np.linspace, ascending, 4 units apart
FreeGrids ==
    {Linspace(start, start + 4 * (num - 1), num) :
        start \in {-4, 0}, num \in 2..MaxGrid}
\* the indices asked of it: from below the grids to above them, grid points,
\* midpoints and the points nearer to one neighbour
FreeQueries == -6..(4 * MaxGrid - 2)

NoBin ==
    /\ evd = <<>> /\ tbins0 = <<>> /\ tbins1 = <<>>
    /\ bkg_quad_cnts = <<>> /\ cnts_mat = <<>> /\ pcBin = "none"

NoMain ==
    /\ ndbl = 0 /\ trig_time = 0 /\ ii = 0 /\ direction = 0
    /\ tstep = 0 /\ bin_size = 0 /\ t_bins0 = <<>> /\ t_bins1 = <<>>
    /\ tabs = <<>> /\ tab = <<>> /\ dt_tot = 0 /\ pvals = <<>> /\ i_exp = 0
    /\ pcMain = "none"

NoLlh ==
    /\ data = <<>> /\ bkg_cnts = <<>> /\ bkg_err = <<>>
    /\ sig_dt = RZero /\ bkg_dt = RZero
    /\ theta = <<>> /\ queried = FALSE /\ caller = "none"
    /\ llh_args = [kind |-> "none"] /\ llh_ret = [kind |-> "none"]

InitIntp ==
    /\ NoLlh /\ NoBin /\ NoMain
    /\ \E ax \in FreeGrids :
         \E mat \in [DOMAIN ax -> TemplateRows] : IntpInit(mat, ax)
    /\ ind \in FreeQueries
    /\ cnts_norm = [kind |-> "none"]

\* the call cnts_intp(ind)
Call ==
    /\ cnts_norm.kind = "none"
    /\ cnts_norm' = IntpCall(ind, ind_ax, cnt_ebins_norm_ind_mat, ind0, ind1)
    /\ UNCHANGED <<ind_ax, cnt_ebins_norm_ind_mat, ind0, ind1, ind>>
    /\ UNCHANGED <<varsBin1, varsLlh, varsBin, varsMain>>

NextIntp == Call

SpecIntp == InitIntp /\ [][NextIntp]_vars

\* ------------------------------------------------------ profiled likelihood
RSq(a) == RMul(a, a)

\* p + q*sqrt(D) with p, q, D rational and D >= 0
Surd(p, q, D) == [p |-> p, q |-> q, D |-> D]
SurdAddRat(x, r) == Surd(RAdd(x.p, r), x.q, x.D)
SurdScale(x, r) == Surd(RMul(x.p, r), RMul(x.q, r), x.D)
SurdAdd(x, y) == Surd(RAdd(x.p, y.p), RAdd(x.q, y.q), x.D)
SurdSq(x) ==
    Surd(RAdd(RSq(x.p), RMul(RSq(x.q), x.D)),
         RMul(RInt(2), RMul(x.p, x.q)), x.D)
SurdSign(x) ==
    IF RSign(x.q) = 0 \/ RSign(x.D) = 0 THEN RSign(x.p)
    ELSE IF RSign(x.p) = 0 THEN RSign(x.q)
    ELSE IF RSign(x.p) = RSign(x.q) THEN RSign(x.p)
    ELSE RSign(x.p) * RSign(RSub(RSq(x.p), RMul(RSq(x.q), x.D)))

\* The kinds of a float: "zero", "pos", "neg" (finite, sign known), "fin"
\* (finite), "pinf", "ninf", "nan".  numpy returns the specials, with a
\* RuntimeWarning, where exact arithmetic is undefined.
FlFinite(a) == a \in {"zero", "pos", "neg", "fin"}
FlOfSign(sg) == IF sg = 0 THEN "zero" ELSE IF sg > 0 THEN "pos" ELSE "neg"
FlNeg(a) ==
    CASE a = "pos" -> "neg" [] a = "neg" -> "pos"
      [] a = "pinf" -> "ninf" [] a = "ninf" -> "pinf" [] OTHER -> a
\* np.square
FlSq(a) ==
    CASE a \in {"pos", "neg"} -> "pos" [] a \in {"pinf", "ninf"} -> "pinf"
      [] OTHER -> a
\* np.log
FlLog(a) ==
    CASE a = "pos" -> "fin" [] a = "zero" -> "ninf" [] a = "pinf" -> "pinf"
      [] OTHER -> "nan"
FlAdd(a, b) ==
    CASE a = "nan" \/ b = "nan" -> "nan"
      [] a = "pinf" -> (IF b = "ninf" THEN "nan" ELSE "pinf")
      [] a = "ninf" -> (IF b = "pinf" THEN "nan" ELSE "ninf")
      [] b \in {"pinf", "ninf"} -> b
      [] a = "zero" -> b
      [] b = "zero" -> a
      [] a = b -> a
      [] OTHER -> "fin"
FlSub(a, b) == FlAdd(a, FlNeg(b))
FlMul(a, b) ==
    CASE a = "nan" \/ b = "nan" -> "nan"
      [] a = "zero" -> (IF FlFinite(b) THEN "zero" ELSE "nan")
      [] b = "zero" -> (IF FlFinite(a) THEN "zero" ELSE "nan")
      [] a = "fin" \/ b = "fin" ->
            (IF FlFinite(a) /\ FlFinite(b) THEN "fin" ELSE "nan")
      [] (a \in {"pos", "pinf"}) = (b \in {"pos", "pinf"}) ->
            (IF FlFinite(a) /\ FlFinite(b) THEN "pos" ELSE "pinf")
      [] OTHER -> (IF FlFinite(a) /\ FlFinite(b) THEN "neg" ELSE "ninf")
\* a / b for a finite a and a finite b >= 0
FlDiv(a, b) ==
    CASE a = "nan" \/ b = "nan" -> "nan"
      [] b = "zero" ->
            (CASE a = "zero" -> "nan" [] a = "pos" -> "pinf"
               [] a = "neg" -> "ninf" [] OTHER -> "nan")
      [] OTHER -> a

\* an uncertainty k*sqrt(n), as main computes it from counts; its square
SqrtTimes(k, n) == [k |-> k, n |-> n]
ErrSquared(e) == RMul(RSq(e.k), e.n)

\* the coefficients of the quadratic in f, as the code writes them
QuadLinear(sdt, sig2, odt, off_cnts, sig_rate) ==
    RAdd(RSub(RMul(sdt, sig2), RMul(odt, off_cnts)), RMul(RSq(odt), sig_rate))
QuadConst(sdt, sig2, odt, off_cnts, sig_rate, data_cnts) ==
    RSub(RSub(RMul(RMul(sdt, sig2), sig_rate), RMul(data_cnts, sig2)),
         RMul(RMul(odt, off_cnts), sig_rate))

\* the argument of np.sqrt in d_i
DiscriminantMutTwoAC(lin, odt, const) ==
    RSub(RSq(lin), RMul(RMul(RInt(2), RSq(odt)), const))
Discriminant(lin, odt, const) ==
    RSub(RSq(lin), RMul(RMul(RInt(4), RSq(odt)), const))

\* f_i = (-(lin) + d_i) / (2 odt^2) with d_i = sqrt(disc), for disc >= 0
RootPlus(lin, odt, disc) ==
    LET den == RMul(RInt(2), RSq(odt))
    IN  Surd(RDiv(RNeg(lin), den), RDiv(RInt(1), den), disc)

\* profiled_bkg_llh on one element of its (vectorised) arguments
ProfiledElem(data_cnts, sig_rate, sdt, off_cnts, odt, off_cnts_err) ==
    LET sig2 == ErrSquared(off_cnts_err)
        lin == QuadLinear(sdt, sig2, odt, off_cnts, sig_rate)
        const == QuadConst(sdt, sig2, odt, off_cnts, sig_rate, data_cnts)
        disc == Discriminant(lin, odt, const)
    IN  IF RSign(disc) < 0
        THEN [llh |-> "nan", disc |-> disc, f |-> "nan",
              div_by_zero |-> FALSE, log_on_nonpos |-> FALSE, log_data_nonpos |-> FALSE]
        ELSE
        LET f_i == RootPlus(lin, odt, disc)
            on_cnts == SurdScale(SurdAddRat(f_i, sig_rate), sdt)
            resid == SurdAddRat(SurdScale(f_i, RNeg(odt)), off_cnts)
            d == FlOfSign(RSign(data_cnts))
            two_sig2 == FlOfSign(RSign(RMul(RInt(2), sig2)))
            term1 == FlOfSign(SurdSign(on_cnts))
            term2 == FlMul(d, FlLog(FlOfSign(SurdSign(on_cnts))))
            term3 == FlDiv(FlSq(FlOfSign(SurdSign(resid))), two_sig2)
            term4 == FlMul(d, FlSub("pos", FlLog(d)))
        IN  [llh |-> FlSub(FlAdd(FlSub(term1, term2), term3), term4),
             disc |-> disc, f |-> f_i,
             div_by_zero |-> (two_sig2 = "zero"),
             log_on_nonpos |-> (SurdSign(on_cnts) <= 0),
             log_data_nonpos |-> (d # "pos")]

\* np.sum of a vector of float kinds
RECURSIVE FlSum(_)
FlSum(v) == IF v = <<>> THEN "zero" ELSE FlAdd(Head(v), FlSum(Tail(v)))

\* profiled_bkg_llh: the summed likelihood, the per-element roots, and whether
\* the evaluation divided by zero or took the logarithm of a value <= 0 (of
\* the on-source counts sdt*(sig_rate + f_i), of data_cnts)
ProfiledSum(el) ==
    [llh |-> FlSum([j \in DOMAIN el |-> el[j].llh]),
     disc |-> [j \in DOMAIN el |-> el[j].disc],
     f |-> [j \in DOMAIN el |-> el[j].f],
     div_by_zero |-> \E j \in DOMAIN el : el[j].div_by_zero,
     log_on_nonpos |-> \E j \in DOMAIN el : el[j].log_on_nonpos,
     log_data_nonpos |-> \E j \in DOMAIN el : el[j].log_data_nonpos]

profiled_bkg_llh(data_cnts, sig_rate, sdt, off_cnts, odt, off_cnts_err) ==
    ProfiledSum([j \in DOMAIN data_cnts |->
                   ProfiledElem(data_cnts[j], sig_rate[j], sdt, off_cnts[j], odt,
                                off_cnts_err[j])])

\* rates_llh: the signal rates of the template, then the profiled likelihood;
\* a NaN template makes every rate, and so the likelihood, NaN
rates_llh(data_, nsig, sig_e_normed, bkg_cnts_, bkg_err_, sig_dt_, bkg_dt_) ==
    IF sig_e_normed.kind # "vec"
    THEN [args |-> [kind |-> "call", data_cnts |-> data_, sig_rate |-> "nan",
                    sdt |-> sig_dt_, off_cnts |-> bkg_cnts_, odt |-> bkg_dt_,
                    off_cnts_err |-> bkg_err_],
          ret |-> [llh |-> "nan", disc |-> <<>>, f |-> <<>>,
                   div_by_zero |->
                       \E j \in DOMAIN bkg_err_ :
                           RSign(ErrSquared(bkg_err_[j])) = 0,
                   log_on_nonpos |-> FALSE, log_data_nonpos |-> FALSE]]
    ELSE LET sig_rates == [j \in DOMAIN sig_e_normed.vec |->
                             RMul(RDiv(nsig, sig_dt_), sig_e_normed.vec[j])]
         IN  [args |-> [kind |-> "call", data_cnts |-> data_,
                        sig_rate |-> sig_rates, sdt |-> sig_dt_,
                        off_cnts |-> bkg_cnts_, odt |-> bkg_dt_,
                        off_cnts_err |-> bkg_err_],
              ret |-> profiled_bkg_llh(data_, sig_rates, sig_dt_, bkg_cnts_,
                                       bkg_dt_, bkg_err_)]

\* 10.0 ** t for a whole t
RECURSIVE Pow10(_)
Pow10(t) ==
    IF t = 0 THEN RInt(1)
    ELSE IF t > 0 THEN RMul(RInt(10), Pow10(t - 1))
    ELSE RDiv(Pow10(t + 1), RInt(10))

\* the index test of rate_llh2min
OutOfRangeMutWide(i) == (i < MainIndLo) \/ (i > MainIndHi)
OutOfRange(i) == (i < PenaltyLo) \/ (i > PenaltyHi)

\* rate_llh2min(theta, ...) with cnorm_obj the cache (ax, mat, lo, hi):
\* +inf without a query of the cache outside [-1, 3], else the likelihood of
\* the template the cache returns
rate_llh2min(th, data_, bkg_cnts_, bkg_err_, sig_dt_, bkg_dt_, ax, mat, lo, hi) ==
    LET nsig == Pow10(th[1])
        ind_ == th[2]
    IN  IF OutOfRange(ind_)
        THEN [queried |-> FALSE, cnt_ebn |-> [kind |-> "none"],
              args |-> [kind |-> "none"],
              ret |-> [llh |-> "pinf", disc |-> <<>>, f |-> <<>>,
                       div_by_zero |-> FALSE, log_on_nonpos |-> FALSE,
                       log_data_nonpos |-> FALSE]]
        ELSE LET cnt_ebn == IntpCall(ind_, ax, mat, lo, hi)
             IN  [queried |-> TRUE, cnt_ebn |-> cnt_ebn] @@
                 rates_llh(data_, nsig, cnt_ebn, bkg_cnts_, bkg_err_,
                           sig_dt_, bkg_dt_)

\* ---------------------------------------- direct calls of profiled_bkg_llh
NoIntp ==
    /\ ind_ax = <<>> /\ cnt_ebins_norm_ind_mat = <<>>
    /\ ind0 = 0 /\ ind1 = 0 /\ ind = "none" /\ cnts_norm = [kind |-> "none"]

CntVals == {RInt(k) : k \in 0..MaxCnt}
SigRates == {RInt(0), Rat(1, 2), RInt(3)}
SigDts == {RInt(1), RInt(2)}
BkgDts == {RInt(1), RInt(4)}
\* uncertainties: 1, 2, and 5*sqrt(off_cnts) as main computes it
ErrVals(off_cnts) ==
    {SqrtTimes(RInt(1), RInt(1)), SqrtTimes(RInt(2), RInt(1)),
     SqrtTimes(RInt(BkgErrFactor), off_cnts)}

InitLlh ==
    /\ NoIntp /\ NoBin /\ NoMain
    /\ data = <<>> /\ bkg_cnts = <<>> /\ bkg_err = <<>>
    /\ sig_dt = RZero /\ bkg_dt = RZero
    /\ theta = <<>> /\ queried = FALSE /\ caller = "direct"
    /\ \E d \in CntVals, s \in SigRates, sdt \in SigDts, o \in CntVals,
          odt \in BkgDts :
         \E err \in ErrVals(o) :
            llh_args = [kind |-> "call", data_cnts |-> <<d>>,
                        sig_rate |-> <<s>>, sdt |-> sdt, off_cnts |-> <<o>>,
                        odt |-> odt, off_cnts_err |-> <<err>>]
    /\ llh_ret = [kind |-> "none"]

\* profiled_bkg_llh called on the arguments llh_args
ProfiledCall ==
    /\ caller = "direct"
    /\ "kind" \in DOMAIN llh_ret
    /\ llh_ret' = profiled_bkg_llh(llh_args.data_cnts, llh_args.sig_rate,
                                   llh_args.sdt, llh_args.off_cnts,
                                   llh_args.odt, llh_args.off_cnts_err)
    /\ UNCHANGED <<varsIntp, varsBin1, varsBin, varsMain, theta, queried, caller,
                   llh_args>>

NextLlh == ProfiledCall

SpecLlh == InitLlh /\ [][NextLlh]_vars

\* ------------------------------------- the fit of one (subset, time bin)
\* the cache main builds: the grid of line 304 and one template row per grid
\* point (the rows come from the detector response, an input of the model)
MainIndAx == Linspace(MainIndLo, MainIndHi, MainIndNum)

\* bkg_err = 5.0 * np.sqrt(bkg_cnts)
BkgErr(cnts) == [j \in DOMAIN cnts |-> SqrtTimes(RInt(BkgErrFactor), cnts[j])]

\* the counts of one energy bin in a time bin or in the background interval
FitCnts == {RInt(0), RInt(3)}
\* the points the simplex may visit: log10 of the amplitude, and indices
\* around the penalty bounds, the grid ends and the start x0 = [1.0, 1.0]
ThetaAmps == {0, 1}
ThetaInds == {-80, -60, -41, -40, -39, 0, 40, 119, 120, 121, 140, 160}

\* the state of main before the fit of one (subset, time bin): the cache,
\* the bin's counts, the background, and the point theta that optimize.fmin
\* is about to try
InitFit ==
    /\ IntpInit([k \in DOMAIN MainIndAx |->
                   IF k % 2 = 1 THEN RisingRow ELSE FallingRow], MainIndAx)
    /\ ind = "none"
    /\ cnts_norm = [kind |-> "none"]
    /\ data \in [1..NEbins -> FitCnts]
    /\ bkg_cnts \in [1..NEbins -> FitCnts]
    /\ bkg_err = BkgErr(bkg_cnts)
    /\ sig_dt \in SigDts
    /\ bkg_dt = RInt(4)
    /\ theta \in ThetaAmps \X ThetaInds
    /\ queried = FALSE /\ caller = "none"
    /\ llh_args = [kind |-> "none"] /\ llh_ret = [kind |-> "none"]
    /\ NoBin /\ NoMain

\* main, lines 359-368: the null likelihood, nsig = 0 with the template of
\* index 1.0
NullEval ==
    \E r \in {rates_llh(data, RZero,
                        IntpCall(MainNullInd, ind_ax, cnt_ebins_norm_ind_mat,
                                 ind0, ind1),
                        bkg_cnts, bkg_err, sig_dt, bkg_dt)} :
        /\ caller = "none"
        /\ caller' = "null"
        /\ llh_args' = r.args
        /\ llh_ret' = r.ret
        /\ UNCHANGED <<varsIntp, varsBin1, varsBin, varsMain, theta, queried>>

\* one evaluation rate_llh2min(theta, ...) of the objective by optimize.fmin
Objective ==
    \E r \in {rate_llh2min(theta, data, bkg_cnts, bkg_err, sig_dt, bkg_dt,
                           ind_ax, cnt_ebins_norm_ind_mat, ind0, ind1)} :
        /\ caller = "null"
        /\ caller' = "objective"
        /\ queried' = r.queried
        /\ llh_args' = r.args
        /\ llh_ret' = r.ret
        /\ IF r.queried
           THEN ind' = theta[2] /\ cnts_norm' = r.cnt_ebn
           ELSE UNCHANGED <<ind, cnts_norm>>
        /\ UNCHANGED <<ind_ax, cnt_ebins_norm_ind_mat, ind0, ind1, varsBin1,
                       varsBin, varsMain, theta>>

NextFit == NullEval \/ Objective

SpecFit == InitFit /\ [][NextFit]_vars

\* ------------------------------------------------------- binning engine
\* ev2quad_cnts: the events of each quadrant, by DETX, DETY against the
\* midlines (np.sum of a mask is the number of events it selects)
ev2quad_cnts(ev) ==
    << Len(SelectSeq(ev, LAMBDA e : e.DETX < x_mid /\ e.DETY < y_mid)),
       Len(SelectSeq(ev, LAMBDA e : e.DETX < x_mid /\ e.DETY > y_mid)),
       Len(SelectSeq(ev, LAMBDA e : e.DETX > x_mid /\ e.DETY > y_mid)),
       Len(SelectSeq(ev, LAMBDA e : e.DETX > x_mid /\ e.DETY < y_mid)) >>

\* the pixels <<DETY, DETX>> of the detector plane the events of the model
\* fall on: one inside each quadrant, one on the column x_mid, one on the
\* row y_mid
Pixels ==
    {<<85, 141>>, <<87, 141>>, <<87, 143>>, <<85, 143>>, <<85, 142>>, <<86, 143>>}

\* det2dpis: for each energy bin the image dpi[DETY, DETX] of the events with
\* ebins0[j] <= ENERGY < ebins1[j]; an image is kept on Pixels, every other
\* pixel of the plane holding 0
det2dpis(ev, e0, e1) ==
    [j \in DOMAIN e0 |->
        [px \in Pixels |->
            Len(SelectSeq(ev, LAMBDA e : /\ e.ENERGY >= e0[j] /\ e.ENERGY < e1[j]
                                         /\ e.DETY = px[1] /\ e.DETX = px[2]))]]

RECURSIVE SumOver(_, _)
SumOver(f, S) ==
    IF S = {} THEN 0
    ELSE LET x == CHOOSE x \in S : TRUE IN f[x] + SumOver(f, S \ {x})

\* dpi2cnts_perquad: the sums of the four slices of an image
dpi2cnts_perquad(dpi) ==
    << SumOver(dpi, {px \in DOMAIN dpi : px[1] < y_mid /\ px[2] < x_mid}),
       SumOver(dpi, {px \in DOMAIN dpi : px[1] >= y_mid /\ px[2] < x_mid}),
       SumOver(dpi, {px \in DOMAIN dpi : px[1] >= y_mid /\ px[2] >= x_mid}),
       SumOver(dpi, {px \in DOMAIN dpi : px[1] < y_mid /\ px[2] >= x_mid}) >>

\* one pass of the outer loop of get_quad_cnts_tbins: row i of cnts_mat
QuadCntsOfTbin(i, tb0, tb1, e0, e1, ev) ==
    LET sig_data == SelectSeq(ev, LAMBDA e : e.TIME >= tb0[i] /\ e.TIME < tb1[i])
    IN  [j \in DOMAIN e0 |->
            ev2quad_cnts(SelectSeq(sig_data,
                LAMBDA e : e.ENERGY >= e0[j] /\ e.ENERGY < e1[j]))]

\* the events: arrival time, energy (first and third energy bin), pixel
Events ==
    {[TIME |-> t, ENERGY |-> en, DETY |-> px[1], DETX |-> px[2]] :
        t \in {0, 1, 3}, en \in {140, 363}, px \in Pixels}
EventLists == UNION {[1..n -> Events] : n \in 0..MaxEv}
\* the time bins: contiguous, overlapping by half (as main builds them), and
\* one bin over the whole interval
TimeBins == {<< <<0, 2>>, <<2, 4>> >>, << <<0, 1>>, <<2, 3>> >>, << <<0>>, <<4>> >>}

InitBin ==
    /\ NoIntp /\ NoLlh /\ NoMain
    /\ evd \in EventLists
    /\ \E tb \in TimeBins : tbins0 = tb[1] /\ tbins1 = tb[2]
    /\ bkg_quad_cnts = <<>>
    /\ cnts_mat = <<>>
    /\ pcBin = "dpi"

\* main, lines 269-271: the counts per energy bin and quadrant from the images
BkgQuadCnts ==
    /\ pcBin = "dpi"
    /\ bkg_quad_cnts' =
           LET dpis == det2dpis(evd, ebins0, ebins1)
           IN  [j \in DOMAIN dpis |-> dpi2cnts_perquad(dpis[j])]
    /\ pcBin' = "tbins"
    /\ UNCHANGED <<evd, tbins0, tbins1, cnts_mat>>
    /\ UNCHANGED <<varsIntp, varsBin1, varsLlh, varsMain>>

\* get_quad_cnts_tbins: the next time bin
TbinStep ==
    /\ pcBin = "tbins"
    /\ Len(cnts_mat) < Len(tbins0)
    /\ cnts_mat' = Append(cnts_mat,
           QuadCntsOfTbin(Len(cnts_mat) + 1, tbins0, tbins1, ebins0, ebins1, evd))
    /\ UNCHANGED <<evd, tbins0, tbins1, bkg_quad_cnts, pcBin>>
    /\ UNCHANGED <<varsIntp, varsBin1, varsLlh, varsMain>>

\* get_quad_cnts_tbins returns cnts_mat
QuadCntsReturn ==
    /\ pcBin = "tbins"
    /\ Len(cnts_mat) = Len(tbins0)
    /\ pcBin' = "done"
    /\ UNCHANGED <<evd, tbins0, tbins1, bkg_quad_cnts, cnts_mat>>
    /\ UNCHANGED <<varsIntp, varsBin1, varsLlh, varsMain>>

NextBin == BkgQuadCnts \/ TbinStep \/ QuadCntsReturn

SpecBin == InitBin /\ [][NextBin]_vars

\* ------------------------------------- main: doubling rounds and trials
\* np.arange(start, stop, step): ceil((stop - start) / step) values
arange(start, stop, step) ==
    [k \in 1..((stop - start + step - 1) \div step) |-> start + (k - 1) * step]

\* the time bins of a round: starts every step, each bin size long
TBins0(step, trig) ==
    [k \in DOMAIN arange(-HalfSpan, HalfSpan, step) |->
        arange(-HalfSpan, HalfSpan, step)[k] + trig]
TBins1(bins0, size) == [k \in DOMAIN bins0 |-> bins0[k] + size]

\* the keys of quad_dicts, in the order of the dictionary
Directions ==
    <<"all", "left", "top", "right", "bottom", "quad0", "quad1", "quad2", "quad3">>

\* np.isclose(a, b): |a - b| <= atol + rtol * |b|
isclose(a, b) == Abs(a - b) * InvTol <= 1 + Abs(b)

RECURSIVE Pow2(_)
Pow2(n) == IF n = 0 THEN 1 ELSE 2 * Pow2(n - 1)

RECURSIVE Flatten(_)
Flatten(ts) == IF ts = <<>> THEN <<>> ELSE Head(ts) \o Flatten(Tail(ts))

\* Nexps = args.ndbl + 1
NexpsMutShort(n) == n - 1
Nexps(n) == n + 1

TrigTimes == {0, 1000}

InitMain ==
    /\ NoIntp /\ NoLlh /\ NoBin
    /\ ndbl \in 1..MaxNdbl
    /\ trig_time \in TrigTimes
    /\ ii = 0
    /\ direction = 1
    /\ tstep = tstep0
    /\ bin_size = bin_size0
    /\ t_bins0 = TBins0(tstep0, trig_time)
    /\ t_bins1 = TBins1(t_bins0, bin_size0)
    /\ tabs = <<>> /\ tab = <<>> /\ dt_tot = 0 /\ pvals = <<>> /\ i_exp = 0
    /\ pcMain = "subsets"

\* main, lines 333-405: the table of one detector subset in the round, one
\* row per time bin (the likelihood columns, which the fit of each bin fills,
\* are left out: no later step of main reads them but through pvals)
FitSubset ==
    /\ pcMain = "subsets"
    /\ tabs' = Append(tabs,
           [k \in DOMAIN t_bins0 |->
               [tstart |-> t_bins0[k], tstop |-> t_bins1[k],
                direction |-> Directions[direction]]])
    /\ IF direction < Len(Directions)
       THEN direction' = direction + 1 /\ pcMain' = "subsets"
       ELSE direction' = direction /\ pcMain' = "double"
    /\ UNCHANGED <<ndbl, trig_time, ii, tstep, bin_size, t_bins0, t_bins1,
                   tab, dt_tot, pvals, i_exp>>
    /\ UNCHANGED <<varsIntp, varsBin1, varsLlh, varsBin>>

\* main, lines 413-417 and the loop test of line 332
DoubleUpMutKeepBinSize ==
    /\ pcMain = "double"
    /\ tstep' = tstep * 2
    /\ bin_size' = bin_size
    /\ t_bins0' = TBins0(tstep', trig_time)
    /\ t_bins1' = TBins1(t_bins0', bin_size')
    /\ ii' = ii + 1
    /\ IF ii + 1 < ndbl
       THEN direction' = 1 /\ pcMain' = "subsets"
       ELSE direction' = direction /\ pcMain' = "vstack"
    /\ UNCHANGED <<ndbl, trig_time, tabs, tab, dt_tot, pvals, i_exp>>
    /\ UNCHANGED <<varsIntp, varsBin1, varsLlh, varsBin>>

DoubleUp ==
    /\ pcMain = "double"
    /\ tstep' = tstep * 2
    /\ bin_size' = bin_size * 2
    /\ t_bins0' = TBins0(tstep', trig_time)
    /\ t_bins1' = TBins1(t_bins0', bin_size')
    /\ ii' = ii + 1
    /\ IF ii + 1 < ndbl
       THEN direction' = 1 /\ pcMain' = "subsets"
       ELSE direction' = direction /\ pcMain' = "vstack"
    /\ UNCHANGED <<ndbl, trig_time, tabs, tab, dt_tot, pvals, i_exp>>
    /\ UNCHANGED <<varsIntp, varsBin1, varsLlh, varsBin>>

\* a p-value is kept as the operations applied to chi2.sf(2 llhr) of the row
\* main, lines 424-432: the stacked table, its span, the uncorrected p-values
Vstack ==
    /\ pcMain = "vstack"
    /\ tab' = Flatten(tabs)
    /\ dt_tot' = SeqMax([k \in DOMAIN tab' |-> tab'[k].tstop])
                 - SeqMin([k \in DOMAIN tab' |-> tab'[k].tstart])
    /\ pvals' = [k \in DOMAIN tab' |-> <<>>]
    /\ i_exp' = 0
    /\ pcMain' = "trials"
    /\ UNCHANGED <<ndbl, trig_time, ii, direction, tstep, bin_size, t_bins0,
                   t_bins1, tabs>>
    /\ UNCHANGED <<varsIntp, varsBin1, varsLlh, varsBin>>

\* main, lines 433-435: one pass of the loop over the duration classes
TrialsStep ==
    /\ pcMain = "trials"
    /\ i_exp < Nexps(ndbl)
    /\ LET exps == [k \in DOMAIN tab |-> tab[k].tstop - tab[k].tstart]
           bl_exp == {k \in DOMAIN tab : isclose(exps[k], bin_size0 * Pow2(i_exp))}
       IN  pvals' = [k \in DOMAIN pvals |->
                       IF k \in bl_exp
                       THEN Append(pvals[k],
                                [op |-> "times", num |-> Cardinality(bl_exp),
                                 den |-> dt_tot])
                       ELSE pvals[k]]
    /\ i_exp' = i_exp + 1
    /\ UNCHANGED <<ndbl, trig_time, ii, direction, tstep, bin_size, t_bins0,
                   t_bins1, tabs, tab, dt_tot, pcMain>>
    /\ UNCHANGED <<varsIntp, varsBin1, varsLlh, varsBin>>

\* main, lines 436-438: pvals = 1 - exp(-pvals), stored in the table
FinalTransform ==
    /\ pcMain = "trials"
    /\ i_exp = Nexps(ndbl)
    /\ pvals' = [k \in DOMAIN pvals |-> Append(pvals[k], [op |-> "1-exp(-p)"])]
    /\ pcMain' = "done"
    /\ UNCHANGED <<ndbl, trig_time, ii, direction, tstep, bin_size, t_bins0,
                   t_bins1, tabs, tab, dt_tot, i_exp>>
    /\ UNCHANGED <<varsIntp, varsBin1, varsLlh, varsBin>>

NextMain == FitSubset \/ DoubleUp \/ Vstack \/ TrialsStep \/ FinalTransform

SpecMain == InitMain /\ [][NextMain]_vars

\* ------------------------------------------------ claims on the interpolator
AtGridPoint(k) == cnts_norm.kind # "none" /\ k \in DOMAIN ind_ax /\ ind = ind_ax[k]

\* C4 (as stated): a call at any grid point ind_ax[k], the first and the last
\* included, returns the stored row k unchanged.
C4_IdempotentAtEveryGridPoint ==
    \A k \in DOMAIN ind_ax :
        AtGridPoint(k) =>
            /\ cnts_norm.kind = "vec"
            /\ cnts_norm.vec = cnt_ebins_norm_ind_mat[k]

\* C4 (amended): a call at an interior grid point (neither the first nor the
\* last of ind_ax) returns the stored row unchanged; at the first and the last
\* grid point the call returns the NaN vector.
C4_IdempotentAtInteriorGridPoints ==
    \A k \in DOMAIN ind_ax :
        AtGridPoint(k) =>
            IF 1 < k /\ k < Len(ind_ax)
            THEN /\ cnts_norm.kind = "vec"
                 /\ cnts_norm.vec = cnt_ebins_norm_ind_mat[k]
            ELSE cnts_norm.kind = "nan"

\* a call at an interior grid point whose neighbouring rows both differ from it
C4_Witness ==
    \E k \in DOMAIN ind_ax :
        /\ AtGridPoint(k)
        /\ 1 < k /\ k < Len(ind_ax)
        /\ cnt_ebins_norm_ind_mat[k - 1] # cnt_ebins_norm_ind_mat[k]
        /\ cnt_ebins_norm_ind_mat[k + 1] # cnt_ebins_norm_ind_mat[k]
        /\ cnts_norm.kind = "vec"

\* C5: a call at x <= min(ind_ax) or x >= max(ind_ax) returns, without raising,
\* a NaN vector as long as the template matrix has columns; a call strictly
\* inside blends two rows whose positions both lie in 0..len(ind_ax)-1.
C5_BoundsAndRows ==
    cnts_norm.kind # "none" =>
        IF ind <= SeqMin(ind_ax) \/ ind >= SeqMax(ind_ax)
        THEN /\ cnts_norm.kind = "nan"
             /\ cnts_norm.len = Len(cnt_ebins_norm_ind_mat[1])
        ELSE /\ cnts_norm.kind = "vec"
             /\ cnts_norm.i0 \in 0..(Len(ind_ax) - 1)
             /\ cnts_norm.i1 \in 0..(Len(ind_ax) - 1)
             /\ cnts_norm.i1 # cnts_norm.i0

\* a call strictly inside whose nearest grid point is the last one, so that
\* the neighbour has to be taken on the inner side
C5_Witness ==
    /\ cnts_norm.kind = "vec"
    /\ Len(ind_ax) > 2
    /\ cnts_norm.i0 = Len(ind_ax) - 1
    /\ cnts_norm.i1 = Len(ind_ax) - 2

\* ------------------------------------------------- claims on the likelihood
Returned == "llh" \in DOMAIN llh_ret
CalledProfiled == Returned /\ llh_args.kind = "call"

\* C6: when the off-region counts of some energy bin are 0 (so that
\* off_cnts_err = 5*sqrt(0) = 0), profiled_bkg_llh as called by the null
\* evaluation and by the objective divides by no zero and returns a finite
\* likelihood.
C6_ZeroBackgroundHandled ==
    (/\ caller \in {"null", "objective"}
     /\ CalledProfiled
     /\ \E j \in DOMAIN bkg_cnts : RSign(bkg_cnts[j]) = 0)
    => (~llh_ret.div_by_zero /\ FlFinite(llh_ret.llh))

\* C7: for a time bin where some energy bin has data_cnts = 0, with positive
\* background counts and uncertainty in every bin, profiled_bkg_llh takes no
\* logarithm of a non-positive value in data_cnts*(1 - log(data_cnts)) and
\* returns a finite likelihood.
C7_ZeroCountsHandled ==
    (/\ caller \in {"null", "objective"}
     /\ CalledProfiled
     /\ \E j \in DOMAIN data : RSign(data[j]) = 0
     /\ \A j \in DOMAIN bkg_cnts : RSign(bkg_cnts[j]) > 0)
    => (~llh_ret.log_data_nonpos /\ FlFinite(llh_ret.llh))

\* the quadratic of the claim, odt^2 f^2 + (sdt sig2 - odt off + odt^2 s) f
\* + (sdt sig2 s - data sig2 - odt off s), at f = x, for element j of the call
C8_Quadratic(j, x) ==
    LET a == llh_args
        sig2 == ErrSquared(a.off_cnts_err[j])
        qa == RSq(a.odt)
        qb == RAdd(RSub(RMul(a.sdt, sig2), RMul(a.odt, a.off_cnts[j])),
                   RMul(RSq(a.odt), a.sig_rate[j]))
        qc == RSub(RSub(RMul(RMul(a.sdt, sig2), a.sig_rate[j]),
                        RMul(a.data_cnts[j], sig2)),
                   RMul(RMul(a.odt, a.off_cnts[j]), a.sig_rate[j]))
    IN  SurdAddRat(SurdAdd(SurdScale(SurdSq(x), qa), SurdScale(x, qb)), qc)

C8_Valid(j) ==
    /\ RSign(llh_args.data_cnts[j]) >= 0
    /\ RSign(llh_args.sig_rate[j]) >= 0
    /\ RSign(llh_args.off_cnts[j]) >= 0
    /\ RSign(ErrSquared(llh_args.off_cnts_err[j])) > 0
    /\ RSign(llh_args.sdt) > 0
    /\ RSign(llh_args.odt) > 0

\* C8: for data_cnts, sig_rate, off_cnts >= 0 and off_cnts_err, sdt, odt > 0
\* the discriminant is non-negative and the returned f_i is the root of the
\* quadratic taken with + sqrt: substituting f_i into the quadratic gives 0.
C8_RootSatisfiesQuadratic ==
    (caller = "direct" /\ CalledProfiled) =>
        \A j \in DOMAIN llh_args.data_cnts :
            C8_Valid(j) =>
                /\ RSign(llh_ret.disc[j]) >= 0
                /\ RSign(llh_ret.f[j].q) > 0
                /\ SurdSign(C8_Quadratic(j, llh_ret.f[j])) = 0

\* a call on valid arguments with counts, signal and background all positive
\* and a positive discriminant: the two roots differ
C8_Witness ==
    /\ caller = "direct" /\ CalledProfiled
    /\ C8_Valid(1)
    /\ RSign(llh_args.data_cnts[1]) > 0
    /\ RSign(llh_args.sig_rate[1]) > 0
    /\ RSign(llh_args.off_cnts[1]) > 0
    /\ RSign(llh_ret.disc[1]) > 0

\* C9: rate_llh2min returns +inf without a query of the cache for an index
\* < -1 or > 3, and for an index in [-1, 3] the cache of main is queried
\* strictly inside its grid and returns a template that is not NaN.
C9_PenaltyKeepsCacheInDomain ==
    caller = "objective" =>
        IF theta[2] < -40 \/ theta[2] > 120
        THEN /\ llh_ret.llh = "pinf"
             /\ ~queried
             /\ ind = "none" /\ cnts_norm.kind = "none"
        ELSE /\ queried
             /\ ind = theta[2]
             /\ ind0 < ind /\ ind < ind1
             /\ cnts_norm.kind = "vec"

\* the objective evaluated at the upper end 3.0 of the accepted indices
C9_Witness ==
    /\ caller = "objective"
    /\ theta[2] = 120
    /\ queried
    /\ cnts_norm.kind = "vec"

\* --------------------------------------------------- claims on the binning
InOneTimeBin(e) ==
    Cardinality({i \in DOMAIN tbins0 : e.TIME >= tbins0[i] /\ e.TIME < tbins1[i]}) = 1
InOneEnergyBin(e) ==
    Cardinality({j \in DOMAIN ebins0 : e.ENERGY >= ebins0[j] /\ e.ENERGY < ebins1[j]}) = 1
SumQuads(q) == q[1] + q[2] + q[3] + q[4]
RECURSIVE SumSeq(_)
SumSeq(v) == IF v = <<>> THEN 0 ELSE Head(v) + SumSeq(Tail(v))
TotalCnts ==
    SumSeq([i \in DOMAIN cnts_mat |->
              SumSeq([j \in DOMAIN cnts_mat[i] |-> SumQuads(cnts_mat[i][j])])])

\* C1: when every event lies in exactly one time bin and in exactly one
\* energy bin, whatever its pixel, the entries of the count array returned by
\* get_quad_cnts_tbins add up to the number of events.
C1_EventsConserved ==
    (/\ pcBin = "done"
     /\ \A k \in DOMAIN evd : InOneTimeBin(evd[k]) /\ InOneEnergyBin(evd[k]))
    => TotalCnts = Len(evd)

\* C10: the quadrant counts taken from the detector-plane images
\* (dpi2cnts_perquad) and from the events (ev2quad_cnts) of the same events
\* agree, quadrant by quadrant, in every energy bin.
C10_SameQuadrants ==
    (/\ pcBin = "done"
     /\ Len(tbins0) = 1
     /\ \A k \in DOMAIN evd : InOneTimeBin(evd[k]))
    => \A j \in DOMAIN ebins0 : cnts_mat[1][j] = bkg_quad_cnts[j]

\* ------------------------------------------------------- claims on main
InRound == pcMain \in {"subsets", "double"}

\* C2 (as stated): in every doubling round the time bins are contiguous and
\* do not overlap: the start of bin i+1 is the stop of bin i.
C2_BinsContiguous ==
    InRound =>
        \A k \in 1..(Len(t_bins0) - 1) : t_bins0[k + 1] = t_bins1[k]

\* C2 (amended): in every doubling round the bins start tstep apart and each
\* is bin_size = 2 * tstep long, so that consecutive bins overlap by half a
\* bin: bin i+1 starts at the middle of bin i and bin i+2 starts where bin i
\* stops.
C2_BinsOverlapByHalf ==
    InRound =>
        /\ tstep = tstep0 * Pow2(ii)
        /\ bin_size = 2 * tstep
        /\ \A k \in DOMAIN t_bins0 : t_bins1[k] = t_bins0[k] + bin_size
        /\ \A k \in 1..(Len(t_bins0) - 1) :
              /\ t_bins0[k + 1] = t_bins0[k] + tstep
              /\ 2 * t_bins0[k + 1] = t_bins0[k] + t_bins1[k]
        /\ \A k \in 1..(Len(t_bins0) - 2) : t_bins0[k + 2] = t_bins1[k]

\* a round after the first doubling with at least three bins
C2_Witness ==
    /\ pcMain = "subsets"
    /\ ii >= 1
    /\ Len(t_bins0) >= 3

SameDuration(k) ==
    {m \in DOMAIN tab : tab[m].tstop - tab[m].tstart = tab[k].tstop - tab[k].tstart}
TableSpan ==
    SeqMax([k \in DOMAIN tab |-> tab[k].tstop])
    - SeqMin([k \in DOMAIN tab |-> tab[k].tstart])

\* C3: at the end of main the p-value of every row has been multiplied by
\* exactly one factor, (number of rows of the row's duration) / (max tstop -
\* min tstart of the table), and then transformed by 1 - exp(-p).
C3_TrialsOncePerRow ==
    pcMain = "done" =>
        /\ Len(tab) = 9 * SumSeq([r \in 1..ndbl |->
                         Len(arange(-HalfSpan, HalfSpan, tstep0 * Pow2(r - 1)))])
        /\ \A k \in DOMAIN tab :
              pvals[k] = << [op |-> "times", num |-> Cardinality(SameDuration(k)),
                             den |-> TableSpan],
                            [op |-> "1-exp(-p)"] >>

\* a finished run of at least two rounds: rows of two duration classes, with
\* different factors
C3_Witness ==
    /\ pcMain = "done"
    /\ ndbl >= 2
    /\ \E k, m \in DOMAIN tab :
          /\ Len(pvals[k]) = 2 /\ Len(pvals[m]) = 2
          /\ pvals[k][1].num # pvals[m][1].num

====
